---- MODULE Spec2Model ----
(***************************************************************************)
(* Trend-weather correlation engine of the golf/weather dashboards:        *)
(* the day classifier, the date join and the per-group summary of          *)
(* src/dashboard.py, src/golf_weather_naverdatalab_2024.py and             *)
(* src/simple_dashboard.py.                                                *)
(*                                                                         *)
(* Millimetre readings and thresholds are fixed-point integers in          *)
(* thousandths of a millimetre (1.0 mm = 1000, 0.999 mm = 999).  A cell of *)
(* a pandas row is a record [k, v]: k = "num" for a float, "nan" for a     *)
(* not-a-number reading, "none" for a Python None and "missing" for a key  *)
(* the row does not have.  Means of search ratios are exact rationals.     *)
(***************************************************************************)
EXTENDS Integers, Sequences, FiniteSets, TLC

VARIABLES
    pc,             \* position of the running program
    row,            \* classifier call: the row being classified
    thresholds,     \* classifier call: [rain, snow] thresholds passed
    day_type,       \* classifier call: the value returned by the last call
    prev_day_type,  \* classifier call: value returned by the call before, same inputs
    caller,         \* thresholds the caller of the analysis wants applied
    df_trend,       \* load_data_with_keywords: result of the trend fetch
    df_wx,          \* load_data_with_keywords: result of the weather fetch
    merged,         \* load_data_with_keywords: first returned value
    summary,        \* load_data_with_keywords: second returned value
    reported,       \* what main shows for the request
    pending,        \* fetch_naver_data: keyword groups still to be requested
    all_rows,       \* fetch_naver_data: rows collected from the answered requests
    correlation,    \* simple_dashboard main: the coefficient returned by Series.corr
    strength,       \* simple_dashboard main: strength label of the coefficient
    direction,      \* simple_dashboard main: direction label of the coefficient
    credentials,    \* where the Naver keys are set: [env, secrets]
    cities_left,    \* fetch_national_weather_data: cities still to be fetched
    all_weather_data, \* fetch_national_weather_data: frames of the cities that answered
    weather_msg,    \* fetch_national_weather_data: the message returned with the frame
    cache,          \* st.cache_data store of load_data_with_keywords
    now,            \* seconds on the clock of the cache
    call,           \* the last call of load_data_with_keywords and how it was served
    keyword_input,  \* the keyword entries typed in the sidebar
    keyword_groups, \* the keyword groups built from the entries
    sidebar,        \* CSV mode: the selected groups and date range
    filtered_daily, \* CSV mode: the filtered daily frame
    displayed       \* CSV mode: the daily frame the page renders and offers for download

vars == <<pc, row, thresholds, day_type, prev_day_type, caller,
          df_trend, df_wx, merged, summary, reported,
          pending, all_rows, correlation, strength, direction,
          credentials, cities_left, all_weather_data, weather_msg, cache, now, call,
          keyword_input, keyword_groups, sidebar, filtered_daily, displayed>>

classifier_vars == <<row, thresholds, day_type, prev_day_type, caller>>
load_vars == <<df_trend, df_wx, merged, summary>>
simple_vars == <<pending, all_rows, correlation, strength, direction>>
national_vars == <<cities_left, all_weather_data, weather_msg>>
cache_vars == <<cache, now, call>>
keyword_vars == <<keyword_input, keyword_groups>>
csv_vars == <<sidebar, filtered_daily, displayed>>

(***************************************************************************)
(* Values                                                                  *)
(***************************************************************************)
Num(n) == [k |-> "num", v |-> n]
NaN == [k |-> "nan", v |-> 0]
None == [k |-> "none", v |-> 0]
Missing == [k |-> "missing", v |-> 0]

\* readings tried by the classifier specification, in thousandths of a mm
Readings == {Num(0 - 1000), Num(0), Num(999), Num(1000), Num(2000), NaN, None, Missing}

\* thresholds a caller of classify_weather may pass, in thousandths of a mm
ThresholdValues == {0, 1000, 2000}

RAIN_MM_THRESHOLD == 1000
SNOW_MM_THRESHOLD == 1000
DEFAULT_RAIN_THRESHOLD == 1000
DEFAULT_SNOW_THRESHOLD == 1000

Categories == {"dry", "rain", "snow", "mixed"}

\* row.get(key, 0.0): the default replaces only a key the row does not have
RowGet(cell) == IF cell.k = "missing" THEN Num(0) ELSE cell

\* x or 0.0: None and 0.0 are falsy; a not-a-number float is truthy and is kept
OrZero(x) == IF x.k = "none" \/ (x.k = "num" /\ x.v = 0) THEN Num(0) ELSE x

\* mutant of Ge: strict comparison
GeStrict(x, t) == x.k = "num" /\ x.v > t

\* x >= t on floats: every comparison with not-a-number is False
Ge(x, t) == x.k = "num" /\ x.v >= t

\* comparing None with a float raises TypeError
Comparable(x) == x.k \in {"num", "nan"}

\* the if-chain shared by the three classifiers, on the two coalesced readings
Chain(rain, snow, rain_threshold, snow_threshold) ==
    IF ~Comparable(rain) \/ ~Comparable(snow) THEN "TypeError"
    ELSE IF Ge(rain, rain_threshold) /\ Ge(snow, snow_threshold) THEN "mixed"
    ELSE IF Ge(snow, snow_threshold) THEN "snow"
    ELSE IF Ge(rain, rain_threshold) THEN "rain"
    ELSE "dry"

\* mutant of classify_weather: the combined test is dropped, snow is tested first
classify_weather_nomixed(r, rain_threshold, snow_threshold) ==
    LET rain == OrZero(RowGet(r.rain_sum))
        snow == OrZero(RowGet(r.snowfall_sum))
    IN  IF ~Comparable(rain) \/ ~Comparable(snow) THEN "TypeError"
        ELSE IF Ge(snow, snow_threshold) THEN "snow"
        ELSE IF Ge(rain, rain_threshold) THEN "rain"
        ELSE "dry"

\* mutant of classify_weather: the answer depends on the previous answer
classify_weather_sticky(r, rain_threshold, snow_threshold) ==
    LET c == Chain(OrZero(RowGet(r.rain_sum)), OrZero(RowGet(r.snowfall_sum)),
                   rain_threshold, snow_threshold)
    IN  IF day_type = "mixed" /\ c = "dry" THEN "rain" ELSE c

\* dashboard.py classify_weather(row, rain_threshold=1.0, snow_threshold=1.0)
classify_weather(r, rain_threshold, snow_threshold) ==
    LET rain == OrZero(RowGet(r.rain_sum))
        snow == OrZero(RowGet(r.snowfall_sum))
    IN  Chain(rain, snow, rain_threshold, snow_threshold)

\* mutant of classify_weather_batch: a reading equal to the threshold is below it
classify_weather_batch_strict(r) ==
    LET rain == OrZero(RowGet(r.rain_sum))
        snow == OrZero(RowGet(r.snowfall_sum))
    IN  IF GeStrict(rain, RAIN_MM_THRESHOLD) /\ GeStrict(snow, SNOW_MM_THRESHOLD) THEN "mixed"
        ELSE IF GeStrict(snow, SNOW_MM_THRESHOLD) THEN "snow"
        ELSE IF GeStrict(rain, RAIN_MM_THRESHOLD) THEN "rain"
        ELSE "dry"

\* golf_weather_naverdatalab_2024.py classify_weather(row): module thresholds
classify_weather_batch(r) ==
    LET rain == OrZero(RowGet(r.rain_sum))
        snow == OrZero(RowGet(r.snowfall_sum))
    IN  Chain(rain, snow, RAIN_MM_THRESHOLD, SNOW_MM_THRESHOLD)

(***************************************************************************)
(* Classifier specification: calls of classify_weather on arbitrary rows   *)
(***************************************************************************)
NoFrame == [none |-> TRUE, rows |-> <<>>]
\* no coefficient computed yet; a coefficient is the sign and the square of r
NoCorrelation == [k |-> "none", sign |-> 0, num |-> 0, den |-> 1]
\* the keys exported as environment variables, the case the pipelines start from
EnvCredentials == [env |-> TRUE, secrets |-> FALSE, used |-> "-"]
\* the arguments of one call of load_data_with_keywords
BaseParams ==
    [keyword_groups |-> <<"A">>, start_date |-> 1, end_date |-> 3,
     lat |-> 37, lon |-> 126, tz |-> "Asia/Seoul"]
\* what the function body returns: (None, None), or the frames of these arguments
FailurePair == [none |-> TRUE, of |-> BaseParams]
Loaded(p) == [none |-> FALSE, of |-> p]
\* no call made yet
NoCall == [n |-> 0, params |-> BaseParams, served |-> "-", result |-> FailurePair,
           stored_by |-> BaseParams, age |-> 0]
NoSidebar == [selected_groups |-> {}, date_range |-> <<>>]
NoRow == [rain_sum |-> Missing, snowfall_sum |-> Missing]
DefaultThresholds == [rain |-> DEFAULT_RAIN_THRESHOLD, snow |-> DEFAULT_SNOW_THRESHOLD]

InitClassify ==
    /\ pc = "classifier"
    /\ row = NoRow
    /\ thresholds = DefaultThresholds
    /\ day_type = "-"
    /\ prev_day_type = "-"
    /\ caller = DefaultThresholds
    /\ df_trend = NoFrame
    /\ df_wx = NoFrame
    /\ merged = NoFrame
    /\ summary = NoFrame
    /\ reported = "-"
    /\ pending = <<>>
    /\ all_rows = <<>>
    /\ correlation = NoCorrelation
    /\ strength = "-"
    /\ direction = "-"
    /\ credentials = EnvCredentials
    /\ cities_left = <<>>
    /\ all_weather_data = <<>>
    /\ weather_msg = "-"
    /\ cache = <<>>
    /\ now = 0
    /\ call = NoCall
    /\ keyword_input = <<>>
    /\ keyword_groups = <<>>
    /\ sidebar = NoSidebar
    /\ filtered_daily = NoFrame
    /\ displayed = NoFrame

\* a call with new arguments
Classify ==
    /\ pc = "classifier"
    /\ \E rain \in Readings, snow \in Readings,
          rt \in ThresholdValues, st \in ThresholdValues :
          /\ row' = [rain_sum |-> rain, snowfall_sum |-> snow]
          /\ thresholds' = [rain |-> rt, snow |-> st]
          /\ day_type' = classify_weather(row', rt, st)
    /\ prev_day_type' = "-"
    /\ UNCHANGED <<pc, caller, df_trend, df_wx, merged, summary, reported>>
    /\ UNCHANGED <<pending, all_rows, correlation, strength, direction>>
    /\ UNCHANGED <<credentials, cities_left, all_weather_data, weather_msg, cache, now,
                   call, keyword_input, keyword_groups, sidebar, filtered_daily, displayed>>

\* the same call made again with identical arguments
ClassifyAgain ==
    /\ pc = "classifier"
    /\ day_type # "-"
    /\ prev_day_type' = day_type
    /\ day_type' = classify_weather(row, thresholds.rain, thresholds.snow)
    /\ UNCHANGED <<pc, row, thresholds, caller, df_trend, df_wx, merged, summary, reported>>
    /\ UNCHANGED <<pending, all_rows, correlation, strength, direction>>
    /\ UNCHANGED <<credentials, cities_left, all_weather_data, weather_msg, cache, now,
                   call, keyword_input, keyword_groups, sidebar, filtered_daily, displayed>>

NextClassify == Classify \/ ClassifyAgain

SpecClassify == InitClassify /\ [][NextClassify]_vars

(***************************************************************************)
(* Frames: the trend and weather series, the date join, the summary        *)
(***************************************************************************)
MaxTrend == 3       \* most rows of a trend frame

Dates == {1, 2, 3}
GroupOrder == <<"A", "B">>      \* keyword groups, in index (sorted) order
Groups == {GroupOrder[i] : i \in 1..Len(GroupOrder)}
Ratios == {10, 20}
CategoryOrder == <<"dry", "mixed", "rain", "snow">>
DeltaOrder == <<"rain", "snow", "mixed">>

GroupRank(g) == CHOOSE i \in 1..Len(GroupOrder) : GroupOrder[i] = g

TrendPoints == [date : Dates, group : Groups, ratio : Ratios]

\* daily readings of one date: precipitation_sum, rain_sum, snowfall_sum
WeatherReadings ==
    { [precipitation_sum |-> Num(0),    rain_sum |-> Num(0),    snowfall_sum |-> Num(0)],
      [precipitation_sum |-> Num(1000), rain_sum |-> Num(1000), snowfall_sum |-> Num(0)],
      [precipitation_sum |-> Num(1000), rain_sum |-> Num(0),    snowfall_sum |-> Num(1000)],
      [precipitation_sum |-> Num(2000), rain_sum |-> Num(1000), snowfall_sum |-> Num(1000)],
      [precipitation_sum |-> NaN,       rain_sum |-> NaN,       snowfall_sum |-> NaN] }

WeatherPoint(d, w) ==
    [date |-> d, precipitation_sum |-> w.precipitation_sum,
     rain_sum |-> w.rain_sum, snowfall_sum |-> w.snowfall_sum]

Frame(rows) == [none |-> FALSE, rows |-> rows]

\* position of a trend row in the response: groups in order, dates ascending
TrendKey(p) == (GroupRank(p.group) - 1) * (Cardinality(Dates) + 1) + p.date

\* trend responses of n rows: one row per (group, date), a group after the other
RECURSIVE TrendRows(_)
TrendRows(n) ==
    IF n = 0 THEN {<<>>}
    ELSE UNION { { Append(s, p) : p \in { q \in TrendPoints :
                        \A i \in 1..(n - 1) : TrendKey(s[i]) < TrendKey(q) } } :
                 s \in TrendRows(n - 1) }

\* weather responses of n rows: one row per date, dates ascending
RECURSIVE WeatherRows(_)
WeatherRows(n) ==
    IF n = 0 THEN {<<>>}
    ELSE UNION { { Append(s, WeatherPoint(d, w)) :
                     d \in { e \in Dates : \A i \in 1..(n - 1) : s[i].date < e },
                     w \in WeatherReadings } :
                 s \in WeatherRows(n - 1) }

\* what fetch_naver_datalab_daily can return: None, or a frame (possibly empty)
TrendResults == {NoFrame} \cup { Frame(s) : s \in UNION { TrendRows(n) : n \in 0..MaxTrend } }

\* what fetch_open_meteo_daily can return: None, or a frame (possibly empty)
WeatherResults == {NoFrame} \cup { Frame(s) : s \in UNION { WeatherRows(n) : n \in 0..Cardinality(Dates) } }

IsEmpty(df) == Len(df.rows) = 0

MergedRow(t, w) ==
    [date |-> t.date, group |-> t.group, ratio |-> t.ratio,
     precipitation_sum |-> w.precipitation_sum, rain_sum |-> w.rain_sum,
     snowfall_sum |-> w.snowfall_sum]

\* the rows of right whose date is that of the left row t, in right's order
RECURSIVE Matches(_, _)
Matches(t, right) ==
    IF right = <<>> THEN <<>>
    ELSE (IF Head(right).date = t.date THEN <<MergedRow(t, Head(right))>> ELSE <<>>)
         \o Matches(t, Tail(right))

\* mutant of pd_merge: a left join, trend rows without weather are kept
RECURSIVE pd_merge_left(_, _)
pd_merge_left(left, right) ==
    IF left = <<>> THEN <<>>
    ELSE (IF Matches(Head(left), right) = <<>>
          THEN <<MergedRow(Head(left),
                           [precipitation_sum |-> NaN, rain_sum |-> NaN, snowfall_sum |-> NaN])>>
          ELSE Matches(Head(left), right))
         \o pd_merge_left(Tail(left), right)

\* mutant of pd_merge: one merged row per date, further trend rows of a date dropped
RECURSIVE pd_merge_first(_, _)
pd_merge_first(left, right) ==
    IF left = <<>> THEN <<>>
    ELSE LET rest == pd_merge_first(Tail(left), right)
         IN  IF \E i \in 1..Len(rest) : rest[i].date = Head(left).date
             THEN rest
             ELSE Matches(Head(left), right) \o rest

\* pd.merge(left, right, on="date", how="inner"): left order, every matching pair
RECURSIVE pd_merge(_, _)
pd_merge(left, right) ==
    IF left = <<>> THEN <<>>
    ELSE Matches(Head(left), right) \o pd_merge(Tail(left), right)

\* merged["day_type"] = merged.apply(classify_weather, axis=1): default thresholds
WithDayType(rows) ==
    [i \in 1..Len(rows) |->
        [date |-> rows[i].date, group |-> rows[i].group, ratio |-> rows[i].ratio,
         precipitation_sum |-> rows[i].precipitation_sum, rain_sum |-> rows[i].rain_sum,
         snowfall_sum |-> rows[i].snowfall_sum,
         day_type |-> classify_weather(rows[i], DEFAULT_RAIN_THRESHOLD,
                                       DEFAULT_SNOW_THRESHOLD)]]
(***************************************************************************)
(* Summary: mean ratio per (group, day_type), pivot, zero fill, deltas     *)
(***************************************************************************)
RECURSIVE GCD(_, _)
GCD(a, b) == IF b = 0 THEN a ELSE GCD(b, a % b)

Abs(n) == IF n < 0 THEN 0 - n ELSE n

\* the number n/d (d > 0) in lowest terms
Rat(n, d) ==
    LET g == GCD(Abs(n), d)
    IN  [k |-> "num", num |-> n \div g, den |-> d \div g]

Zero == Rat(0, 1)
NaNCell == [k |-> "nan", num |-> 0, den |-> 1]

\* a - b on floats; not-a-number propagates
Sub(a, b) ==
    IF a.k = "nan" \/ b.k = "nan" THEN NaNCell
    ELSE Rat(a.num * b.den - b.num * a.den, a.den * b.den)

RECURSIVE SumRatio(_)
SumRatio(rows) == IF rows = <<>> THEN 0 ELSE Head(rows).ratio + SumRatio(Tail(rows))

RowsOf(rows, g, c) == SelectSeq(rows, LAMBDA m : m.group = g /\ m.day_type = c)

ObservedGroups(rows) == { rows[i].group : i \in 1..Len(rows) }
ObservedTypes(rows) == { rows[i].day_type : i \in 1..Len(rows) }

\* mutant of GroupMean: the mean is taken over the group's rows of every day type
GroupMeanAllTypes(rows, g, c) ==
    LET sel == SelectSeq(rows, LAMBDA m : m.group = g)
    IN  Rat(SumRatio(sel), Len(sel))

\* mutant of GroupMean: the first record of the group and day type stands for all
GroupMeanFirst(rows, g, c) == Rat(Head(RowsOf(rows, g, c)).ratio, 1)

\* groupby(["group", "day_type"])["ratio"].mean(), for an observed (g, c)
GroupMean(rows, g, c) ==
    LET sel == RowsOf(rows, g, c)
    IN  Rat(SumRatio(sel), Len(sel))

\* mutant of FillNa: the missing cells are left as they are
FillNaKeep(x) == x

\* .fillna(0.0)
FillNa(x) == IF x.k = "nan" THEN Zero ELSE x

\* mutant of Pivot: a group gets only the columns of its own day types
PivotOwnColumns(rows) ==
    [g \in ObservedGroups(rows) |->
        [c \in { d \in ObservedTypes(rows) : Len(RowsOf(rows, g, d)) > 0 } |->
            GroupMean(rows, g, c)]]

\* .reset_index().pivot(index="group", columns="day_type", values="ratio"):
\* one row per observed group, one column per observed day type, NaN where no mean
Pivot(rows) ==
    [g \in ObservedGroups(rows) |->
        [c \in ObservedTypes(rows) |->
            IF Len(RowsOf(rows, g, c)) = 0 THEN NaNCell ELSE GroupMean(rows, g, c)]]

DeltaName(t) == IF t = "rain" THEN "rain_vs_dry"
                ELSE IF t = "snow" THEN "snow_vs_dry" ELSE "mixed_vs_dry"
DeltaNames == { DeltaName(DeltaOrder[i]) : i \in 1..Len(DeltaOrder) }
DeltaSource(n) == CHOOSE t \in {"rain", "snow", "mixed"} : DeltaName(t) = n

\* mutant of WithDeltas: a delta only for the categories that have a column
WithDeltasOfColumns(cells) ==
    IF "dry" \in DOMAIN cells
    THEN [c \in (DOMAIN cells) \cup { DeltaName(t) : t \in (DOMAIN cells) \ {"dry"} } |->
            IF c \in DOMAIN cells THEN cells[c]
            ELSE Sub(cells[DeltaSource(c)], cells["dry"])]
    ELSE cells

\* mutant of WithDeltas: a missing dry column is read as 0.0 too
WithDeltasAlways(cells) ==
    [c \in (DOMAIN cells) \cup DeltaNames |->
        IF c \in DOMAIN cells THEN cells[c]
        ELSE Sub(IF DeltaSource(c) \in DOMAIN cells THEN cells[DeltaSource(c)] ELSE Zero,
                 IF "dry" \in DOMAIN cells THEN cells["dry"] ELSE Zero)]

\* the columns of one row after the delta loop
\* summary[f"{t}_vs_dry"] = summary.get(t, 0.0) - summary["dry"], if "dry" is a column
WithDeltas(cells) ==
    IF "dry" \in DOMAIN cells
    THEN [c \in (DOMAIN cells) \cup DeltaNames |->
            IF c \in DOMAIN cells THEN cells[c]
            ELSE Sub(IF DeltaSource(c) \in DOMAIN cells THEN cells[DeltaSource(c)] ELSE Zero,
                     cells["dry"])]
    ELSE cells

\* mutant of Summarize: the pivot is reindexed to every known group
SummarizeAllGroups(rows) ==
    LET pv == Pivot(rows)
    IN  [i \in 1..Len(GroupOrder) |->
            [group |-> GroupOrder[i],
             cells |-> IF GroupOrder[i] \in DOMAIN pv
                       THEN WithDeltas([c \in DOMAIN pv[GroupOrder[i]] |->
                                           FillNa(pv[GroupOrder[i]][c])])
                       ELSE [c \in ObservedTypes(rows) |-> Zero]]]

\* the summary frame's rows, in index order of the groups
Summarize(rows) ==
    LET pv == Pivot(rows)
        order == SelectSeq(GroupOrder, LAMBDA g : g \in DOMAIN pv)
    IN  [i \in 1..Len(order) |->
            [group |-> order[i],
             cells |-> WithDeltas([c \in DOMAIN pv[order[i]] |-> FillNa(pv[order[i]][c])])]]

(***************************************************************************)
(* dashboard.py: one request through load_data_with_keywords and main      *)
(***************************************************************************)
\* thresholds a caller may want applied to an analysis
CallerThresholds == {DefaultThresholds, [rain |-> 2000, snow |-> 1000]}

Init ==
    /\ pc = "start"
    /\ row = NoRow
    /\ thresholds = DefaultThresholds
    /\ day_type = "-"
    /\ prev_day_type = "-"
    /\ caller = DefaultThresholds
    /\ df_trend = NoFrame
    /\ df_wx = NoFrame
    /\ merged = NoFrame
    /\ summary = NoFrame
    /\ reported = "-"
    /\ pending = <<>>
    /\ all_rows = <<>>
    /\ correlation = NoCorrelation
    /\ strength = "-"
    /\ direction = "-"
    /\ credentials = EnvCredentials
    /\ cities_left = <<>>
    /\ all_weather_data = <<>>
    /\ weather_msg = "-"
    /\ cache = <<>>
    /\ now = 0
    /\ call = NoCall
    /\ keyword_input = <<>>
    /\ keyword_groups = <<>>
    /\ sidebar = NoSidebar
    /\ filtered_daily = NoFrame
    /\ displayed = NoFrame

\* fetch_naver_datalab_daily: client_id and client_secret come from the
\* environment, and from st.secrets when the environment has none
ResolveCredentials(c) ==
    IF c.env THEN "env" ELSE IF c.secrets THEN "secrets" ELSE "none"

\* df_trend = fetch_naver_datalab_daily(...); None or empty returns (None, None).
\* Without credentials the fetch returns None before any request is sent.
LoadTrend ==
    /\ pc = "start"
    /\ \E tr \in TrendResults :
          /\ ResolveCredentials(credentials) = "none" => tr = NoFrame
          /\ df_trend' = tr
          /\ IF tr.none \/ IsEmpty(tr)
             THEN pc' = "returned" /\ reported' = "failed"
             ELSE pc' = "trend" /\ reported' = reported
    /\ credentials' = [credentials EXCEPT !.used = ResolveCredentials(credentials)]
    /\ UNCHANGED <<row, thresholds, day_type, prev_day_type, caller, df_wx, merged, summary>>
    /\ UNCHANGED <<pending, all_rows, correlation, strength, direction>>
    /\ UNCHANGED <<cities_left, all_weather_data, weather_msg, cache, now,
                   call, keyword_input, keyword_groups, sidebar, filtered_daily, displayed>>

\* df_wx = fetch_open_meteo_daily(...); None or empty returns (None, None)
LoadWeather ==
    /\ pc = "trend"
    /\ \E wx \in WeatherResults :
          /\ df_wx' = wx
          /\ IF wx.none \/ IsEmpty(wx)
             THEN pc' = "returned" /\ reported' = "failed"
             ELSE pc' = "weather" /\ reported' = reported
    /\ UNCHANGED <<row, thresholds, day_type, prev_day_type, caller, df_trend, merged, summary>>
    /\ UNCHANGED <<pending, all_rows, correlation, strength, direction>>
    /\ UNCHANGED <<credentials, cities_left, all_weather_data, weather_msg, cache, now,
                   call, keyword_input, keyword_groups, sidebar, filtered_daily, displayed>>

\* merge, classify, summarise, return (merged, summary); main goes on to render
LoadMerge ==
    /\ pc = "weather"
    /\ merged' = Frame(WithDayType(pd_merge(df_trend.rows, df_wx.rows)))
    /\ summary' = Frame(Summarize(merged'.rows))
    /\ pc' = "returned"
    /\ reported' = "dashboard"
    /\ UNCHANGED <<row, thresholds, day_type, prev_day_type, caller, df_trend, df_wx>>
    /\ UNCHANGED <<pending, all_rows, correlation, strength, direction>>
    /\ UNCHANGED <<credentials, cities_left, all_weather_data, weather_msg, cache, now,
                   call, keyword_input, keyword_groups, sidebar, filtered_daily, displayed>>

Next == LoadTrend \/ LoadWeather \/ LoadMerge

Spec == Init /\ [][Next]_vars

(***************************************************************************)
(* dashboard.py main, live-API mode: the credentials check, then the load  *)
(***************************************************************************)
InitMain ==
    /\ pc = "main"
    /\ row = NoRow
    /\ thresholds = DefaultThresholds
    /\ day_type = "-"
    /\ prev_day_type = "-"
    /\ caller = DefaultThresholds
    /\ df_trend = NoFrame
    /\ df_wx = NoFrame
    /\ merged = NoFrame
    /\ summary = NoFrame
    /\ reported = "-"
    /\ pending = <<>>
    /\ all_rows = <<>>
    /\ correlation = NoCorrelation
    /\ strength = "-"
    /\ direction = "-"
    /\ credentials \in [env : BOOLEAN, secrets : BOOLEAN, used : {"-"}]
    /\ cities_left = <<>>
    /\ all_weather_data = <<>>
    /\ weather_msg = "-"
    /\ cache = <<>>
    /\ now = 0
    /\ call = NoCall
    /\ keyword_input = <<>>
    /\ keyword_groups = <<>>
    /\ sidebar = NoSidebar
    /\ filtered_daily = NoFrame
    /\ displayed = NoFrame

\* if not os.environ.get("NAVER_CLIENT_ID") or not os.environ.get(
\* "NAVER_CLIENT_SECRET"): st.sidebar.error(...); st.stop()
CheckCredentials ==
    /\ pc = "main"
    /\ IF ~credentials.env
       THEN pc' = "stopped" /\ reported' = "credentials_not_set"
       ELSE pc' = "start" /\ reported' = reported
    /\ UNCHANGED <<row, thresholds, day_type, prev_day_type, caller, load_vars>>
    /\ UNCHANGED <<simple_vars, credentials, national_vars, cache_vars, keyword_vars, csv_vars>>

NextMain == CheckCredentials \/ LoadTrend \/ LoadWeather \/ LoadMerge

SpecMain == InitMain /\ [][NextMain]_vars

(***************************************************************************)
(* dashboard.py main, CSV mode: load_data, the sidebar filters, the render *)
(***************************************************************************)
MaxCsvRows == 2     \* most rows of the daily CSV file

\* the daily files the batch script can have written: one record per (group,
\* date) of a trend response, here of days without precipitation
CsvFiles ==
    { Frame(WithDayType([i \in 1..Len(t) |->
                MergedRow(t[i], [precipitation_sum |-> Num(0), rain_sum |-> Num(0),
                                 snowfall_sum |-> Num(0)])])) :
      t \in UNION { TrendRows(n) : n \in 1..MaxCsvRows } }

DateOptions(df) == { df.rows[i].date : i \in 1..Len(df.rows) }
GroupOptions(df) == { df.rows[i].group : i \in 1..Len(df.rows) }

\* what st.sidebar.date_input returns for a range: (start, end) inside
\* [min, max], or (start,) while the end is not picked yet
DateRanges(df) ==
    { r \in DateOptions(df) \X DateOptions(df) : r[1] <= r[2] }
    \cup { <<a>> : a \in DateOptions(df) }

\* the filtering of main: the selected groups (all when none is selected), then
\* the dates of the range, both ends included; without a full range, daily_df
filter_daily(daily, selected_groups, date_range) ==
    LET by_group == IF selected_groups # {}
                    THEN SelectSeq(daily.rows, LAMBDA m : m.group \in selected_groups)
                    ELSE daily.rows
    IN  IF Len(date_range) = 2
        THEN Frame(SelectSeq(by_group,
                 LAMBDA m : m.date >= date_range[1] /\ m.date <= date_range[2]))
        ELSE daily

InitCsv ==
    /\ pc = "csv"
    /\ row = NoRow
    /\ thresholds = DefaultThresholds
    /\ day_type = "-"
    /\ prev_day_type = "-"
    /\ caller = DefaultThresholds
    /\ df_trend = NoFrame
    /\ df_wx = NoFrame
    /\ merged = NoFrame
    /\ summary = NoFrame
    /\ reported = "-"
    /\ pending = <<>>
    /\ all_rows = <<>>
    /\ correlation = NoCorrelation
    /\ strength = "-"
    /\ direction = "-"
    /\ credentials = EnvCredentials
    /\ cities_left = <<>>
    /\ all_weather_data = <<>>
    /\ weather_msg = "-"
    /\ cache = <<>>
    /\ now = 0
    /\ call = NoCall
    /\ keyword_input = <<>>
    /\ keyword_groups = <<>>
    /\ sidebar = NoSidebar
    /\ filtered_daily = NoFrame
    /\ displayed = NoFrame

\* daily_df, summary_df = load_data(); a missing file gives (None, None) and
\* main stops
LoadCsv ==
    /\ pc = "csv"
    /\ \E daily \in CsvFiles \cup {NoFrame} :
          /\ merged' = daily
          /\ IF daily.none
             THEN summary' = NoFrame /\ pc' = "stopped"
             ELSE summary' = Frame(Summarize(daily.rows)) /\ pc' = "loaded"
    /\ UNCHANGED <<row, thresholds, day_type, prev_day_type, caller, df_trend, df_wx, reported>>
    /\ UNCHANGED <<simple_vars, credentials, national_vars, cache_vars, keyword_vars, csv_vars>>

\* the two sidebar widgets and the filtering that follows them
FilterDaily ==
    /\ pc = "loaded"
    /\ \E selected_groups \in SUBSET GroupOptions(merged), date_range \in DateRanges(merged) :
          /\ sidebar' = [selected_groups |-> selected_groups, date_range |-> date_range]
          /\ filtered_daily' = filter_daily(merged, selected_groups, date_range)
    /\ pc' = "filtered"
    /\ UNCHANGED <<row, thresholds, day_type, prev_day_type, caller, load_vars, reported>>
    /\ UNCHANGED <<simple_vars, credentials, national_vars, cache_vars, keyword_vars, displayed>>

\* the dashboard: the trend chart, the distribution, the heatmap, the table of
\* the last days, the download and the counts are all made from daily_df
RenderCsv ==
    /\ pc = "filtered"
    /\ displayed' = merged
    /\ pc' = "rendered"
    /\ reported' = "dashboard"
    /\ UNCHANGED <<row, thresholds, day_type, prev_day_type, caller, load_vars>>
    /\ UNCHANGED <<simple_vars, credentials, national_vars, cache_vars, keyword_vars,
                   sidebar, filtered_daily>>

NextCsv == LoadCsv \/ FilterDaily \/ RenderCsv

SpecCsv == InitCsv /\ [][NextCsv]_vars

\* the same request, made by a caller who wants its own thresholds applied
InitThresholds ==
    /\ pc = "start"
    /\ row = NoRow
    /\ thresholds = DefaultThresholds
    /\ day_type = "-"
    /\ prev_day_type = "-"
    /\ caller \in CallerThresholds
    /\ df_trend = NoFrame
    /\ df_wx = NoFrame
    /\ merged = NoFrame
    /\ summary = NoFrame
    /\ reported = "-"
    /\ pending = <<>>
    /\ all_rows = <<>>
    /\ correlation = NoCorrelation
    /\ strength = "-"
    /\ direction = "-"
    /\ credentials = EnvCredentials
    /\ cities_left = <<>>
    /\ all_weather_data = <<>>
    /\ weather_msg = "-"
    /\ cache = <<>>
    /\ now = 0
    /\ call = NoCall
    /\ keyword_input = <<>>
    /\ keyword_groups = <<>>
    /\ sidebar = NoSidebar
    /\ filtered_daily = NoFrame
    /\ displayed = NoFrame

SpecThresholds == InitThresholds /\ [][Next]_vars

(***************************************************************************)
(* simple_dashboard.py main: correlation of precipitation and search ratio *)
(* merged_df['강수량'].corr(merged_df['검색량']) and its labels.  The rows *)
(* carry the columns under the names precipitation_sum and ratio.          *)
(***************************************************************************)
MaxPairs == 3

\* precipitation readings and search ratios of the correlated records;
\* a reading of 1000 (1.0 mm) with ratio 2 is ratio = 2 * precipitation
CorrReadings == {Num(0), Num(1000), Num(2000), NaN}
CorrRatios == {0, 2, 4}
CorrPoints == [precipitation_sum : CorrReadings, ratio : CorrRatios]
CorrInputs == UNION { [1..n -> CorrPoints] : n \in 0..MaxPairs }

RECURSIVE Sum(_)
Sum(s) == IF s = <<>> THEN 0 ELSE Head(s) + Sum(Tail(s))

Dot(a, b) == Sum([i \in 1..Len(a) |-> a[i] * b[i]])
Sign(n) == IF n > 0 THEN 1 ELSE IF n < 0 THEN 0 - 1 ELSE 0

\* a * b of two numbers in lowest terms, in lowest terms
RatMul(a, b) ==
    LET g1 == GCD(Abs(a.num), b.den)
        g2 == GCD(Abs(b.num), a.den)
    IN  [k |-> "num", num |-> (a.num \div g1) * (b.num \div g2),
                      den |-> (a.den \div g2) * (b.den \div g1)]

\* the pairs Series.corr keeps: both values present (nancorr drops the others)
ValidPairs(rows) == SelectSeq(rows, LAMBDA m : m.precipitation_sum.k = "num")

\* n * (s[i] - mean(s)): the deviations from the mean, scaled to integers
Deviations(s) == [i \in 1..Len(s) |-> Len(s) * s[i] - Sum(s)]

NaNCorrelation == [k |-> "nan", sign |-> 0, num |-> 0, den |-> 1]

\* mutant of corr: the products are taken without subtracting the means
corrUncentred(rows) ==
    LET valid == ValidPairs(rows)
        x == [i \in 1..Len(valid) |-> valid[i].precipitation_sum.v]
        y == [i \in 1..Len(valid) |-> valid[i].ratio]
    IN  IF Len(valid) < 2 \/ Dot(x, x) = 0 \/ Dot(y, y) = 0 THEN NaNCorrelation
        ELSE LET sq == RatMul(Rat(Dot(x, y), Dot(x, x)), Rat(Dot(x, y), Dot(y, y)))
             IN  [k |-> "num", sign |-> Sign(Dot(x, y)), num |-> sq.num, den |-> sq.den]

\* Series.corr (Pearson, numpy.corrcoef on the valid pairs):
\* r = cov(x, y) / sqrt(var(x) * var(y)), kept as sign(r) and r * r = num / den;
\* not-a-number with fewer than two pairs or a zero variance (0 / 0)
corr(rows) ==
    LET valid == ValidPairs(rows)
        dx == Deviations([i \in 1..Len(valid) |-> valid[i].precipitation_sum.v])
        dy == Deviations([i \in 1..Len(valid) |-> valid[i].ratio])
    IN  IF Len(valid) < 2 \/ Dot(dx, dx) = 0 \/ Dot(dy, dy) = 0 THEN NaNCorrelation
        ELSE LET sq == RatMul(Rat(Dot(dx, dy), Dot(dx, dx)), Rat(Dot(dx, dy), Dot(dy, dy)))
             IN  [k |-> "num", sign |-> Sign(Dot(dx, dy)), num |-> sq.num, den |-> sq.den]

\* abs(correlation) >= p / q; every comparison with not-a-number is False
AbsGe(c, p, q) == c.k = "num" /\ c.num * q * q >= p * p * c.den

\* mutant of StrengthOf: the lower bound of a label is not part of it
StrengthOfStrict(c) ==
    IF c.k = "num" /\ c.num * 100 > 64 * c.den THEN "very_strong"
    ELSE IF c.k = "num" /\ c.num * 100 > 36 * c.den THEN "strong"
    ELSE IF c.k = "num" /\ c.num * 100 > 16 * c.den THEN "moderate"
    ELSE IF c.k = "num" /\ c.num * 100 > 4 * c.den THEN "weak"
    ELSE "negligible"

\* the if / elif chain on abs(correlation): 0.8, 0.6, 0.4, 0.2, else
StrengthOf(c) ==
    IF AbsGe(c, 8, 10) THEN "very_strong"
    ELSE IF AbsGe(c, 6, 10) THEN "strong"
    ELSE IF AbsGe(c, 4, 10) THEN "moderate"
    ELSE IF AbsGe(c, 2, 10) THEN "weak"
    ELSE "negligible"

\* correlation > 0, correlation < 0, else
DirectionOf(c) ==
    IF c.k = "num" /\ c.sign > 0 THEN "positive"
    ELSE IF c.k = "num" /\ c.sign < 0 THEN "negative"
    ELSE "none"

InitCorrelate ==
    /\ pc = "correlate"
    /\ row = NoRow
    /\ thresholds = DefaultThresholds
    /\ day_type = "-"
    /\ prev_day_type = "-"
    /\ caller = DefaultThresholds
    /\ df_trend = NoFrame
    /\ df_wx = NoFrame
    /\ merged \in { Frame(r) : r \in CorrInputs }
    /\ summary = NoFrame
    /\ reported = "-"
    /\ pending = <<>>
    /\ all_rows = <<>>
    /\ correlation = NoCorrelation
    /\ strength = "-"
    /\ direction = "-"
    /\ credentials = EnvCredentials
    /\ cities_left = <<>>
    /\ all_weather_data = <<>>
    /\ weather_msg = "-"
    /\ cache = <<>>
    /\ now = 0
    /\ call = NoCall
    /\ keyword_input = <<>>
    /\ keyword_groups = <<>>
    /\ sidebar = NoSidebar
    /\ filtered_daily = NoFrame
    /\ displayed = NoFrame

\* the correlation section of main on the merged records
Correlate ==
    /\ pc = "correlate"
    /\ correlation' = corr(merged.rows)
    /\ strength' = StrengthOf(correlation')
    /\ direction' = DirectionOf(correlation')
    /\ pc' = "correlated"
    /\ UNCHANGED <<row, thresholds, day_type, prev_day_type, caller, df_trend, df_wx,
                   merged, summary, reported, pending, all_rows>>
    /\ UNCHANGED <<credentials, cities_left, all_weather_data, weather_msg, cache, now,
                   call, keyword_input, keyword_groups, sidebar, filtered_daily, displayed>>

NextCorrelate == Correlate

SpecCorrelate == InitCorrelate /\ [][NextCorrelate]_vars

(***************************************************************************)
(* simple_dashboard.py main: the labels of a coefficient (1075-1122)       *)
(***************************************************************************)
\* the coefficients the section is tried on: every hundredth of [-1, 1]
Hundredths == (0 - 100)..100

\* the coefficient h / 100 as the model keeps one: its sign and its square
CoefficientOf(h) ==
    LET sq == Rat(h * h, 10000)
    IN  [k |-> "num", sign |-> Sign(h), num |-> sq.num, den |-> sq.den]

Coefficients == { CoefficientOf(h) : h \in Hundredths } \cup {NaNCorrelation}

InitLabels ==
    /\ pc = "label"
    /\ row = NoRow
    /\ thresholds = DefaultThresholds
    /\ day_type = "-"
    /\ prev_day_type = "-"
    /\ caller = DefaultThresholds
    /\ df_trend = NoFrame
    /\ df_wx = NoFrame
    /\ merged = NoFrame
    /\ summary = NoFrame
    /\ reported = "-"
    /\ pending = <<>>
    /\ all_rows = <<>>
    /\ correlation \in Coefficients
    /\ strength = "-"
    /\ direction = "-"
    /\ credentials = EnvCredentials
    /\ cities_left = <<>>
    /\ all_weather_data = <<>>
    /\ weather_msg = "-"
    /\ cache = <<>>
    /\ now = 0
    /\ call = NoCall
    /\ keyword_input = <<>>
    /\ keyword_groups = <<>>
    /\ sidebar = NoSidebar
    /\ filtered_daily = NoFrame
    /\ displayed = NoFrame

\* the two if / elif chains, then if abs(correlation) >= 0.2: st.success
\* ("... 상관관계 발견!") else st.info ("상관관계가 거의 없음")
LabelCoefficient ==
    /\ pc = "label"
    /\ strength' = StrengthOf(correlation)
    /\ direction' = DirectionOf(correlation)
    /\ reported' = IF AbsGe(correlation, 2, 10) THEN "found" ELSE "almost_none"
    /\ pc' = "labelled"
    /\ UNCHANGED <<row, thresholds, day_type, prev_day_type, caller, df_trend, df_wx,
                   merged, summary, pending, all_rows, correlation>>
    /\ UNCHANGED <<credentials, national_vars, cache_vars, keyword_vars, csv_vars>>

NextLabels == LabelCoefficient

SpecLabels == InitLabels /\ [][NextLabels]_vars

(***************************************************************************)
(* simple_dashboard.py: fetch_naver_data, one request per keyword group,   *)
(* and the stages of main that follow it.  The columns 날짜, 키워드,       *)
(* 검색량, 강수량, 비, 눈 and 날씨 are carried as date, group, ratio,      *)
(* precipitation_sum, rain_sum, snowfall_sum and day_type.                 *)
(***************************************************************************)
\* keyword_groups built by main, in request order
GroupLists == { <<"A">>, <<"B">>, <<"A", "B">> }

\* the rows one answered request adds for its group: none, one or two dates
AnswersOf ==
    [g \in Groups |->
        { a \in UNION { TrendRows(n) : n \in 0..2 } :
            \A i \in 1..Len(a) : a[i].group = g }]

\* simple_dashboard.py classify_weather(row): row.get("비", 0) or 0 and
\* row.get("눈", 0) or 0 against 1, an if / elif chain; the labels are
\* 혼합 (honhap), 눈 (nun), 비 (bi) and 맑음 (malgeum), each after its emoji
classify_weather_simple(r) ==
    LET rain == OrZero(RowGet(r.rain_sum))
        snow == OrZero(RowGet(r.snowfall_sum))
    IN  IF ~Comparable(rain) \/ ~Comparable(snow) THEN "TypeError"
        ELSE IF Ge(rain, 1000) /\ Ge(snow, 1000) THEN "honhap"
        ELSE IF Ge(snow, 1000) THEN "nun"
        ELSE IF Ge(rain, 1000) THEN "bi"
        ELSE "malgeum"

\* merged_df['날씨'] = merged_df.apply(classify_weather, axis=1)
WithWeather(rows) ==
    [i \in 1..Len(rows) |->
        [date |-> rows[i].date, group |-> rows[i].group, ratio |-> rows[i].ratio,
         precipitation_sum |-> rows[i].precipitation_sum, rain_sum |-> rows[i].rain_sum,
         snowfall_sum |-> rows[i].snowfall_sum,
         day_type |-> classify_weather_simple(rows[i])]]

InitSimple ==
    /\ pc = "fetch"
    /\ row = NoRow
    /\ thresholds = DefaultThresholds
    /\ day_type = "-"
    /\ prev_day_type = "-"
    /\ caller = DefaultThresholds
    /\ df_trend = NoFrame
    /\ df_wx = NoFrame
    /\ merged = NoFrame
    /\ summary = NoFrame
    /\ reported = "-"
    /\ pending \in GroupLists
    /\ all_rows = <<>>
    /\ correlation = NoCorrelation
    /\ strength = "-"
    /\ direction = "-"
    /\ credentials = EnvCredentials
    /\ cities_left = <<>>
    /\ all_weather_data = <<>>
    /\ weather_msg = "-"
    /\ cache = <<>>
    /\ now = 0
    /\ call = NoCall
    /\ keyword_input = <<>>
    /\ keyword_groups = <<>>
    /\ sidebar = NoSidebar
    /\ filtered_daily = NoFrame
    /\ displayed = NoFrame

\* one pass of the loop: the request of the next group is answered
RequestGroup ==
    /\ pc = "fetch"
    /\ pending # <<>>
    /\ \E a \in AnswersOf[Head(pending)] : all_rows' = all_rows \o a
    /\ pending' = Tail(pending)
    /\ UNCHANGED <<pc, row, thresholds, day_type, prev_day_type, caller, df_trend, df_wx,
                   merged, summary, reported, correlation, strength, direction>>
    /\ UNCHANGED <<credentials, cities_left, all_weather_data, weather_msg, cache, now,
                   call, keyword_input, keyword_groups, sidebar, filtered_daily, displayed>>

\* the keys are missing, or the request of the next group raises (network
\* error, status that is not 2xx, malformed body): (None, message) is returned
RequestFails ==
    /\ pc = "fetch"
    /\ pending # <<>>
    /\ df_trend' = NoFrame
    /\ pc' = "search"
    /\ UNCHANGED <<row, thresholds, day_type, prev_day_type, caller, df_wx, merged,
                   summary, reported, pending, all_rows, correlation, strength, direction>>
    /\ UNCHANGED <<credentials, cities_left, all_weather_data, weather_msg, cache, now,
                   call, keyword_input, keyword_groups, sidebar, filtered_daily, displayed>>

\* every group was answered: pd.DataFrame(all_rows) is returned
FetchReturns ==
    /\ pc = "fetch"
    /\ pending = <<>>
    /\ df_trend' = Frame(all_rows)
    /\ pc' = "search"
    /\ UNCHANGED <<row, thresholds, day_type, prev_day_type, caller, df_wx, merged,
                   summary, reported, pending, all_rows, correlation, strength, direction>>
    /\ UNCHANGED <<credentials, cities_left, all_weather_data, weather_msg, cache, now,
                   call, keyword_input, keyword_groups, sidebar, filtered_daily, displayed>>

\* mutant of CheckSearch: main goes on whatever the fetch returned
CheckSearchGoesOn ==
    /\ pc = "search"
    /\ pc' = "checked"
    /\ UNCHANGED <<row, thresholds, day_type, prev_day_type, caller, df_trend, df_wx, merged,
                   summary, reported, pending, all_rows, correlation, strength, direction>>
    /\ UNCHANGED <<credentials, cities_left, all_weather_data, weather_msg, cache, now,
                   call, keyword_input, keyword_groups, sidebar, filtered_daily, displayed>>

\* main: if search_df is not None go on, else st.error(search_msg) and return
CheckSearch ==
    /\ pc = "search"
    /\ IF df_trend.none
       THEN pc' = "returned" /\ reported' = "failed"
       ELSE pc' = "checked" /\ reported' = reported
    /\ UNCHANGED <<row, thresholds, day_type, prev_day_type, caller, df_trend, df_wx, merged,
                   summary, pending, all_rows, correlation, strength, direction>>
    /\ UNCHANGED <<credentials, cities_left, all_weather_data, weather_msg, cache, now,
                   call, keyword_input, keyword_groups, sidebar, filtered_daily, displayed>>

\* main: fetch_weather_data returns (None, message) on any exception, and
\* main shows the message and returns; a frame, even empty, goes on
FetchWeather ==
    /\ pc = "checked"
    /\ \E wx \in WeatherResults :
          /\ df_wx' = wx
          /\ IF wx.none
             THEN pc' = "returned" /\ reported' = "failed"
             ELSE pc' = "weather" /\ reported' = reported
    /\ UNCHANGED <<row, thresholds, day_type, prev_day_type, caller, df_trend, merged,
                   summary, pending, all_rows, correlation, strength, direction>>
    /\ UNCHANGED <<credentials, cities_left, all_weather_data, weather_msg, cache, now,
                   call, keyword_input, keyword_groups, sidebar, filtered_daily, displayed>>

\* df['날짜_str'] = df['날짜'].astype(str): the frame itself gets one more
\* column, the date written out; the rows keep their order and their values
WithDateStr(df) ==
    Frame([i \in 1..Len(df.rows) |->
              df.rows[i] @@ [date_str |-> ToString(df.rows[i].date)]])

\* main from the merge to the correlation section.  The two frames are joined
\* on 날짜_str, which pairs the rows that pd_merge pairs on the date (writing a
\* date out is one to one).  search_df['날짜'] raises
\* KeyError on a frame built from no row; with no merged record
\* weather_df_chart['날씨'] raises KeyError (weather_analysis is empty).
Analyze ==
    /\ pc = "weather"
    /\ pc' = "returned"
    /\ IF IsEmpty(df_trend)
       THEN /\ reported' = "raised"
            /\ UNCHANGED <<df_trend, df_wx, merged, correlation, strength, direction>>
       ELSE /\ df_trend' = WithDateStr(df_trend)
            /\ df_wx' = WithDateStr(df_wx)
            /\ merged' = Frame(WithWeather(pd_merge(df_trend.rows, df_wx.rows)))
            /\ IF IsEmpty(merged')
               THEN /\ reported' = "raised"
                    /\ UNCHANGED <<correlation, strength, direction>>
               ELSE /\ correlation' = corr(merged'.rows)
                    /\ strength' = StrengthOf(correlation')
                    /\ direction' = DirectionOf(correlation')
                    /\ reported' = "dashboard"
    /\ UNCHANGED <<row, thresholds, day_type, prev_day_type, caller,
                   summary, pending, all_rows>>
    /\ UNCHANGED <<credentials, cities_left, all_weather_data, weather_msg, cache, now,
                   call, keyword_input, keyword_groups, sidebar, filtered_daily, displayed>>

NextSimple ==
    RequestGroup \/ RequestFails \/ FetchReturns \/ CheckSearch \/ FetchWeather \/ Analyze

SpecSimple == InitSimple /\ [][NextSimple]_vars

(***************************************************************************)
(* simple_dashboard.py fetch_national_weather_data: one fetch per city,    *)
(* the per-date mean of the cities that answered, and what main shows.     *)
(***************************************************************************)
\* three of the cities of the dictionary, in its order
Cities == <<"Seoul", "Busan", "Daegu">>

\* the dates of the requested range
NationalDates == {1, 2}

\* what fetch_weather_data returns for one city: None, or a row for each date
CityResults ==
    {NoFrame} \cup { Frame(<<WeatherPoint(1, w1), WeatherPoint(2, w2)>>) :
                        w1 \in WeatherReadings, w2 \in WeatherReadings }

ReadingFields == {"precipitation_sum", "rain_sum", "snowfall_sum"}

\* the readings of column f on date d in the concatenated frames, city after city
RECURSIVE ReadingsAt(_, _, _)
ReadingsAt(frames, d, f) ==
    IF frames = <<>> THEN <<>>
    ELSE LET here == SelectSeq(Head(frames).rows, LAMBDA w : w.date = d)
         IN  [i \in 1..Len(here) |-> here[i][f]] \o ReadingsAt(Tail(frames), d, f)

\* mutant of MeanOf: the sum is divided by the number of cities of the dictionary
MeanOfAllCities(cells) ==
    LET nums == SelectSeq(cells, LAMBDA c : c.k = "num")
    IN  IF nums = <<>> THEN NaNCell
        ELSE Rat(Sum([i \in 1..Len(nums) |-> nums[i].v]), Len(Cities))

\* 'mean' of a group: the not-a-number readings are skipped
MeanOf(cells) ==
    LET nums == SelectSeq(cells, LAMBDA c : c.k = "num")
    IN  IF nums = <<>> THEN NaNCell
        ELSE Rat(Sum([i \in 1..Len(nums) |-> nums[i].v]), Len(nums))

\* pd.concat(all_weather_data).groupby('날짜').agg(mean).reset_index()
NationalMean(frames) ==
    LET ds == { d \in NationalDates : ReadingsAt(frames, d, "rain_sum") # <<>> }
        order == SelectSeq(<<1, 2>>, LAMBDA d : d \in ds)
    IN  [i \in 1..Len(order) |->
            [date |-> order[i],
             precipitation_sum |-> MeanOf(ReadingsAt(frames, order[i], "precipitation_sum")),
             rain_sum |-> MeanOf(ReadingsAt(frames, order[i], "rain_sum")),
             snowfall_sum |-> MeanOf(ReadingsAt(frames, order[i], "snowfall_sum"))]]

InitNational ==
    /\ pc = "national"
    /\ row = NoRow
    /\ thresholds = DefaultThresholds
    /\ day_type = "-"
    /\ prev_day_type = "-"
    /\ caller = DefaultThresholds
    /\ df_trend = NoFrame
    /\ df_wx = NoFrame
    /\ merged = NoFrame
    /\ summary = NoFrame
    /\ reported = "-"
    /\ pending = <<>>
    /\ all_rows = <<>>
    /\ correlation = NoCorrelation
    /\ strength = "-"
    /\ direction = "-"
    /\ credentials = EnvCredentials
    /\ cities_left = Cities
    /\ all_weather_data = <<>>
    /\ weather_msg = "-"
    /\ cache = <<>>
    /\ now = 0
    /\ call = NoCall
    /\ keyword_input = <<>>
    /\ keyword_groups = <<>>
    /\ sidebar = NoSidebar
    /\ filtered_daily = NoFrame
    /\ displayed = NoFrame

\* one pass of the loop over the cities: the frame of a city that answered is
\* appended, a city whose fetch returned None is passed over without a word
FetchCity ==
    /\ pc = "national"
    /\ cities_left # <<>>
    /\ \E r \in CityResults :
          all_weather_data' =
              IF r.none THEN all_weather_data
              ELSE Append(all_weather_data, [city |-> Head(cities_left), rows |-> r.rows])
    /\ cities_left' = Tail(cities_left)
    /\ UNCHANGED <<pc, reported, weather_msg, classifier_vars, load_vars, simple_vars,
                   credentials, cache_vars, keyword_vars, csv_vars>>

\* after the loop: (None, message) when no city answered, else the per-date
\* mean and a message that names the number of cities averaged; main shows an
\* error and returns, or goes on under the heading of the 19-city average
NationalReturns ==
    /\ pc = "national"
    /\ cities_left = <<>>
    /\ pc' = "national_done"
    /\ IF all_weather_data = <<>>
       THEN /\ df_wx' = NoFrame
            /\ weather_msg' = [ok |-> FALSE]
            /\ reported' = "failed"
       ELSE /\ df_wx' = Frame(NationalMean(all_weather_data))
            /\ weather_msg' = [ok |-> TRUE, succeeded |-> Len(all_weather_data)]
            /\ reported' = "average_of_every_city"
    /\ UNCHANGED <<cities_left, all_weather_data, df_trend, merged, summary,
                   classifier_vars, simple_vars, credentials, cache_vars, keyword_vars,
                   csv_vars>>

NextNational == FetchCity \/ NationalReturns

SpecNational == InitNational /\ [][NextNational]_vars

(***************************************************************************)
(* dashboard.py: @st.cache_data(ttl=300) in front of                       *)
(* load_data_with_keywords.  The store is keyed by the values of the       *)
(* arguments of the call; an entry is served while younger than the ttl.   *)
(***************************************************************************)
CACHE_TTL == 300
MaxCalls == 3

\* the arguments of six calls that differ from BaseParams in one argument each
CallParams ==
    { BaseParams,
      [BaseParams EXCEPT !.keyword_groups = <<"A", "B">>],
      [BaseParams EXCEPT !.start_date = 2],
      [BaseParams EXCEPT !.end_date = 2],
      [BaseParams EXCEPT !.lat = 35],
      [BaseParams EXCEPT !.lon = 129],
      [BaseParams EXCEPT !.tz = "UTC"] }

\* mutant of CacheKey: the location is left out of the key
CacheKeyWithoutLocation(p) == <<p.keyword_groups, p.start_date, p.end_date, p.tz>>

\* the key of a call: the values of all its arguments
CacheKey(p) == <<p.keyword_groups, p.start_date, p.end_date, p.lat, p.lon, p.tz>>

\* an entry for these arguments is stored and has not reached the ttl
Fresh(store, p, t) ==
    /\ CacheKey(p) \in DOMAIN store
    /\ t - store[CacheKey(p)].stored_at < CACHE_TTL

InitCache ==
    /\ pc = "cache"
    /\ row = NoRow
    /\ thresholds = DefaultThresholds
    /\ day_type = "-"
    /\ prev_day_type = "-"
    /\ caller = DefaultThresholds
    /\ df_trend = NoFrame
    /\ df_wx = NoFrame
    /\ merged = NoFrame
    /\ summary = NoFrame
    /\ reported = "-"
    /\ pending = <<>>
    /\ all_rows = <<>>
    /\ correlation = NoCorrelation
    /\ strength = "-"
    /\ direction = "-"
    /\ credentials = EnvCredentials
    /\ cities_left = <<>>
    /\ all_weather_data = <<>>
    /\ weather_msg = "-"
    /\ cache = <<>>
    /\ now = 0
    /\ call = NoCall
    /\ keyword_input = <<>>
    /\ keyword_groups = <<>>
    /\ sidebar = NoSidebar
    /\ filtered_daily = NoFrame
    /\ displayed = NoFrame

\* mutant of LoadCall: a stored (None, None) is not served, the body runs again
LoadCallRetryingFailures ==
    /\ pc = "cache"
    /\ call.n < MaxCalls
    /\ \E p \in CallParams :
          IF Fresh(cache, p, now) /\ ~cache[CacheKey(p)].value.none
          THEN /\ call' = [n |-> call.n + 1, params |-> p, served |-> "cache",
                           result |-> cache[CacheKey(p)].value,
                           stored_by |-> cache[CacheKey(p)].args,
                           age |-> now - cache[CacheKey(p)].stored_at]
               /\ cache' = cache
          ELSE \E outcome \in {FailurePair, Loaded(p)} :
               /\ call' = [n |-> call.n + 1, params |-> p, served |-> "computed",
                           result |-> outcome, stored_by |-> p, age |-> 0]
               /\ cache' = (CacheKey(p) :> [value |-> outcome, stored_at |-> now, args |-> p])
                              @@ cache
    /\ UNCHANGED <<pc, now, reported, classifier_vars, load_vars, simple_vars, credentials,
                   national_vars, keyword_vars, csv_vars>>

\* one call of load_data_with_keywords from main: a fresh entry of the same
\* key is returned as it is; otherwise the body runs, fetching both sources,
\* and whatever it returns, (None, None) included, is stored under the key
LoadCall ==
    /\ pc = "cache"
    /\ call.n < MaxCalls
    /\ \E p \in CallParams :
          IF Fresh(cache, p, now)
          THEN /\ call' = [n |-> call.n + 1, params |-> p, served |-> "cache",
                           result |-> cache[CacheKey(p)].value,
                           stored_by |-> cache[CacheKey(p)].args,
                           age |-> now - cache[CacheKey(p)].stored_at]
               /\ cache' = cache
          ELSE \E outcome \in {FailurePair, Loaded(p)} :
               /\ call' = [n |-> call.n + 1, params |-> p, served |-> "computed",
                           result |-> outcome, stored_by |-> p, age |-> 0]
               /\ cache' = (CacheKey(p) :> [value |-> outcome, stored_at |-> now, args |-> p])
                              @@ cache
    /\ UNCHANGED <<pc, now, reported, classifier_vars, load_vars, simple_vars, credentials,
                   national_vars, keyword_vars, csv_vars>>

\* time passes between two reruns of the page
Tick ==
    /\ pc = "cache"
    /\ now < 2 * CACHE_TTL
    /\ now' = now + 200
    /\ UNCHANGED <<pc, cache, call, reported, classifier_vars, load_vars, simple_vars,
                   credentials, national_vars, keyword_vars, csv_vars>>

NextCache == LoadCall \/ Tick

SpecCache == InitCache /\ [][NextCache]_vars

(***************************************************************************)
(* The keyword groups built from the sidebar: simple_dashboard.py main     *)
(* (one keyword per line, groups of five) and dashboard.py main (one text  *)
(* field per group, keywords separated by commas).  A keyword is known by  *)
(* the position of its entry; "" is an entry that is blank after strip().  *)
(***************************************************************************)
MaxKeywords == 6

KeywordEntries == {"", "word"}
KeywordInputs ==
    [group_name : {"", "g"},
     entries : UNION { [1..n -> KeywordEntries] : n \in 0..MaxKeywords }]

\* f"그룹{i//5+1}"
GeneratedNames == <<"group1", "group2", "group3">>

\* [k.strip() for k in ... if k.strip()]: the positions of the entries that are not blank
RECURSIVE Stripped(_, _)
Stripped(entries, i) ==
    IF i > Len(entries) THEN <<>>
    ELSE (IF entries[i] = "" THEN <<>> ELSE <<i>>) \o Stripped(entries, i + 1)

\* for i in range(0, len(keywords), 5): keywords[i:i+5] under the name of its number
RECURSIVE GroupsOfFive(_, _)
GroupsOfFive(keywords, n) ==
    IF keywords = <<>> THEN <<>>
    ELSE LET k == IF Len(keywords) < 5 THEN Len(keywords) ELSE 5
         IN  <<[groupName |-> GeneratedNames[n], keywords |-> SubSeq(keywords, 1, k)]>>
             \o GroupsOfFive(SubSeq(keywords, k + 1, Len(keywords)), n + 1)

InitKeywords ==
    /\ pc = "keywords"
    /\ row = NoRow
    /\ thresholds = DefaultThresholds
    /\ day_type = "-"
    /\ prev_day_type = "-"
    /\ caller = DefaultThresholds
    /\ df_trend = NoFrame
    /\ df_wx = NoFrame
    /\ merged = NoFrame
    /\ summary = NoFrame
    /\ reported = "-"
    /\ pending = <<>>
    /\ all_rows = <<>>
    /\ correlation = NoCorrelation
    /\ strength = "-"
    /\ direction = "-"
    /\ credentials = EnvCredentials
    /\ cities_left = <<>>
    /\ all_weather_data = <<>>
    /\ weather_msg = "-"
    /\ cache = <<>>
    /\ now = 0
    /\ call = NoCall
    /\ keyword_input \in KeywordInputs
    /\ keyword_groups = <<>>
    /\ sidebar = NoSidebar
    /\ filtered_daily = NoFrame
    /\ displayed = NoFrame

\* simple_dashboard.py main: no keyword returns with a warning; otherwise the
\* keywords are cut into groups of five and passed to fetch_naver_data
GroupSimple ==
    /\ pc = "keywords"
    /\ LET keywords == Stripped(keyword_input.entries, 1)
       IN  IF keywords = <<>>
           THEN pc' = "returned" /\ keyword_groups' = <<>>
           ELSE pc' = "requested_simple" /\ keyword_groups' = GroupsOfFive(keywords, 1)
    /\ UNCHANGED <<keyword_input, reported, classifier_vars, load_vars, simple_vars,
                   credentials, national_vars, cache_vars, csv_vars>>

\* dashboard.py main with one group: the group is kept when its name and its
\* keyword field are not empty and a keyword is left after strip(); all its
\* keywords go into the one group; with no group the page stops
GroupDashboard ==
    /\ pc = "keywords"
    /\ LET keywords == Stripped(keyword_input.entries, 1)
       IN  IF keyword_input.group_name # "" /\ keywords # <<>>
           THEN /\ pc' = "requested_dashboard"
                /\ keyword_groups' =
                      <<[groupName |-> keyword_input.group_name, keywords |-> keywords]>>
           ELSE pc' = "stopped" /\ keyword_groups' = <<>>
    /\ UNCHANGED <<keyword_input, reported, classifier_vars, load_vars, simple_vars,
                   credentials, national_vars, cache_vars, csv_vars>>

NextKeywords == GroupSimple \/ GroupDashboard

SpecKeywords == InitKeywords /\ [][NextKeywords]_vars

(***************************************************************************)
(* Properties of the classifier (SpecClassify)                             *)
(***************************************************************************)
Called == pc = "classifier" /\ day_type # "-"
NumericRow == row.rain_sum.k = "num" /\ row.snowfall_sum.k = "num"
Absent(x) == x.k # "num"

\* C1: for all numeric rain_sum, snowfall_sum and thresholds, the call returns
\* mixed exactly when both readings reach their thresholds, snow exactly when
\* only snowfall does, rain exactly when only rain does, and dry otherwise.
C1_FirstMatchWins ==
    (Called /\ NumericRow) =>
        LET rain_hit == row.rain_sum.v >= thresholds.rain
            snow_hit == row.snowfall_sum.v >= thresholds.snow
        IN  /\ (day_type = "mixed") <=> (rain_hit /\ snow_hit)
            /\ (day_type = "snow") <=> (snow_hit /\ ~rain_hit)
            /\ (day_type = "rain") <=> (rain_hit /\ ~snow_hit)
            /\ (day_type = "dry") <=> (~rain_hit /\ ~snow_hit)

\* a call with thresholds (2.0, 0.0) on rain 2.0, snow 0.0 has returned mixed
C1_Witness ==
    /\ Called
    /\ row = [rain_sum |-> Num(2000), snowfall_sum |-> Num(0)]
    /\ thresholds = [rain |-> 2000, snow |-> 0]
    /\ day_type = "mixed"

\* C2: with the default thresholds the comparison is inclusive: a reading equal
\* to the threshold reaches the category, a reading below it does not;
\* classify(1.0, 0.0) = rain, classify(0.999, 0.0) = dry, classify(0.0, 1.0) = snow,
\* classify(1.0, 1.0) = mixed.
C2_InclusiveBoundary ==
    (Called /\ NumericRow /\ thresholds = DefaultThresholds) =>
        LET rain == row.rain_sum.v
            snow == row.snowfall_sum.v
        IN  /\ (rain = 1000 /\ snow = 0) => day_type = "rain"
            /\ (rain = 999 /\ snow = 0) => day_type = "dry"
            /\ (rain = 0 /\ snow = 1000) => day_type = "snow"
            /\ (rain = 1000 /\ snow = 1000) => day_type = "mixed"
            /\ (rain = 1000) => day_type \in {"rain", "mixed"}
            /\ (rain < 1000) => day_type \notin {"rain", "mixed"}
            /\ (snow = 1000) => day_type \in {"snow", "mixed"}
            /\ (snow < 1000) => day_type \notin {"snow", "mixed"}

\* a default-threshold call on rain 0.999, snow 0.0 has returned dry
C2_Witness ==
    /\ Called
    /\ thresholds = DefaultThresholds
    /\ row = [rain_sum |-> Num(999), snowfall_sum |-> Num(0)]
    /\ day_type = "dry"

AsZero(x) == IF Absent(x) THEN Num(0) ELSE x

\* C3: a row whose rain_sum and/or snowfall_sum is absent (missing key, None or
\* not-a-number) gets the category it would get with 0.0 in that field, never an
\* error; with both absent and the default thresholds it is dry.
C3_AbsentAsZero ==
    (Called /\ (Absent(row.rain_sum) \/ Absent(row.snowfall_sum))) =>
        /\ day_type \in Categories
        /\ day_type = classify_weather([rain_sum |-> AsZero(row.rain_sum),
                                        snowfall_sum |-> AsZero(row.snowfall_sum)],
                                       thresholds.rain, thresholds.snow)
        /\ (Absent(row.rain_sum) /\ Absent(row.snowfall_sum)
               /\ thresholds = DefaultThresholds) => day_type = "dry"

Returned == pc = "returned" /\ ~merged.none
DatesOf(rows) == { rows[i].date : i \in 1..Len(rows) }
NonEmptyFrame(df) == ~df.none /\ ~IsEmpty(df)
EmptyFrame(df) == ~df.none /\ IsEmpty(df)

\* C5: the category of every merged record is the one the thresholds passed by
\* the caller of the analysis give (the defaults when none are passed).
C5_CallerThresholdsApplied ==
    Returned =>
        \A i \in 1..Len(merged.rows) :
            merged.rows[i].day_type =
                classify_weather(merged.rows[i], caller.rain, caller.snow)

\* C6: the dates of the merged records are exactly the dates present in both
\* the trend and the weather series; two non-empty series always join, without
\* error, whatever dates they share.
C6_InnerJoinDates ==
    /\ Returned =>
          DatesOf(merged.rows) = DatesOf(df_trend.rows) \cap DatesOf(df_wx.rows)
    /\ (pc = "returned" /\ NonEmptyFrame(df_trend) /\ NonEmptyFrame(df_wx)) =>
          (~merged.none /\ reported = "dashboard")

\* trend dates {1, 2} and weather dates {2, 3} have been joined into date {2}
C6_Witness ==
    /\ Returned
    /\ DatesOf(df_trend.rows) = {1, 2}
    /\ DatesOf(df_wx.rows) = {2, 3}
    /\ DatesOf(merged.rows) = {2}

CountDate(rows, d) == Cardinality({ i \in 1..Len(rows) : rows[i].date = d })
WeatherAt(d) == df_wx.rows[CHOOSE j \in 1..Len(df_wx.rows) : df_wx.rows[j].date = d]

\* C7: for every date of both series there are as many merged records as trend
\* rows of that date; each carries its trend row's group and ratio, the three
\* readings of the date's weather point and the category of that point, so the
\* records of one date share their category.
C7_ManyToOne ==
    Returned =>
        LET joined == SelectSeq(df_trend.rows,
                                LAMBDA t : t.date \in DatesOf(df_wx.rows))
        IN  /\ \A d \in DatesOf(df_trend.rows) \cap DatesOf(df_wx.rows) :
                  CountDate(merged.rows, d) = CountDate(df_trend.rows, d)
            /\ Len(merged.rows) = Len(joined)
            /\ \A i \in 1..Len(merged.rows) :
                  LET m == merged.rows[i]
                      w == WeatherAt(m.date)
                  IN  /\ m.date = joined[i].date
                      /\ m.group = joined[i].group
                      /\ m.ratio = joined[i].ratio
                      /\ m.precipitation_sum = w.precipitation_sum
                      /\ m.rain_sum = w.rain_sum
                      /\ m.snowfall_sum = w.snowfall_sum
                      /\ m.day_type = classify_weather(w, DEFAULT_RAIN_THRESHOLD,
                                                       DEFAULT_SNOW_THRESHOLD)
            /\ \A i, j \in 1..Len(merged.rows) :
                  merged.rows[i].date = merged.rows[j].date =>
                      merged.rows[i].day_type = merged.rows[j].day_type

\* two groups' trend rows of date 2 have both been joined to the rainy date 2
C7_Witness ==
    /\ Returned
    /\ CountDate(df_trend.rows, 2) = 2
    /\ CountDate(merged.rows, 2) = 2
    /\ Len(df_trend.rows) = 3
    /\ \A i \in 1..Len(merged.rows) : merged.rows[i].day_type = "rain"

\* C8: joining with the trend series, the weather series or both empty gives
\* an empty sequence of merged records, and is not reported as a failure.
C8_EmptyInputEmptyResult ==
    (pc = "returned" /\ (EmptyFrame(df_trend) \/ EmptyFrame(df_wx))) =>
        (~merged.none /\ IsEmpty(merged) /\ reported # "failed")

RECURSIVE SumOver(_, _)
SumOver(rows, idx) ==
    IF idx = {} THEN 0
    ELSE LET i == CHOOSE j \in idx : TRUE
         IN  rows[i].ratio + SumOver(rows, idx \ {i})

RowsFor(g) == { r \in 1..Len(summary.rows) : summary.rows[r].group = g }

\* C9: for every (group, category) with at least one merged record, the cell of
\* that group's row in that category's column is the arithmetic mean of ratio
\* over exactly the merged records of that group and category.
C9_CellIsMean ==
    Returned =>
        \A g \in Groups, c \in Categories :
            LET idx == { i \in 1..Len(merged.rows) :
                           merged.rows[i].group = g /\ merged.rows[i].day_type = c }
            IN  idx # {} =>
                  /\ RowsFor(g) # {}
                  /\ \A r \in RowsFor(g) :
                        /\ c \in DOMAIN summary.rows[r].cells
                        /\ summary.rows[r].cells[c].k = "num"
                        /\ summary.rows[r].cells[c].num * Cardinality(idx)
                             = summary.rows[r].cells[c].den * SumOver(merged.rows, idx)

\* group A with dry ratios 10 and 20 and a rain ratio 10 has dry = 15 and rain = 10
C9_Witness ==
    /\ Returned
    /\ Len(merged.rows) = 3
    /\ \A i \in 1..3 : merged.rows[i].group = "A"
    /\ merged.rows[1].day_type = "dry" /\ merged.rows[1].ratio = 10
    /\ merged.rows[2].day_type = "dry" /\ merged.rows[2].ratio = 20
    /\ merged.rows[3].day_type = "rain" /\ merged.rows[3].ratio = 10
    /\ Len(summary.rows) = 1
    /\ summary.rows[1].cells["dry"] = Rat(15, 1)
    /\ summary.rows[1].cells["rain"] = Rat(10, 1)

\* C10: the summary has exactly one row per distinct group of the merged
\* records; all its rows have the same columns, among them one for every
\* category observed anywhere in the merged records.
C10_OneRowPerGroupSameColumns ==
    Returned =>
        /\ ~summary.none
        /\ \A g \in Groups :
              Cardinality(RowsFor(g)) = (IF g \in ObservedGroups(merged.rows) THEN 1 ELSE 0)
        /\ \A r \in 1..Len(summary.rows) : summary.rows[r].group \in Groups
        /\ \A r1, r2 \in 1..Len(summary.rows) :
              DOMAIN summary.rows[r1].cells = DOMAIN summary.rows[r2].cells
        /\ \A r \in 1..Len(summary.rows) :
              ObservedTypes(merged.rows) \subseteq DOMAIN summary.rows[r].cells

\* group B has no dry record, group A has one, and both rows have a dry column
C10_Witness ==
    /\ Returned
    /\ Len(summary.rows) = 2
    /\ \E i \in 1..Len(merged.rows) :
          merged.rows[i].group = "A" /\ merged.rows[i].day_type = "dry"
    /\ \A i \in 1..Len(merged.rows) :
          merged.rows[i].group = "B" => merged.rows[i].day_type = "snow"
    /\ "dry" \in DOMAIN summary.rows[2].cells
    /\ "snow" \in DOMAIN summary.rows[1].cells

(***************************************************************************)
(* Properties of the summary's zero fill and deltas (Spec)                 *)
(***************************************************************************)
\* d = a - b on exact numbers
IsDifference(d, a, b) ==
    /\ d.k = "num" /\ a.k = "num" /\ b.k = "num"
    /\ d.num * a.den * b.den = d.den * (a.num * b.den - b.num * a.den)

\* C11: a group with no record in a category that another group has holds
\* exactly 0.0 in that category's column, and that 0.0 is the operand of the
\* row's deltas (c_vs_dry = 0.0 - dry; with no dry record, t_vs_dry = t - 0.0).
C11_ZeroFillUsedInDeltas ==
    Returned =>
        \A r \in 1..Len(summary.rows) :
            LET g == summary.rows[r].group
                cells == summary.rows[r].cells
            IN  \A c \in ObservedTypes(merged.rows) :
                    Len(RowsOf(merged.rows, g, c)) = 0 =>
                        /\ c \in DOMAIN cells
                        /\ cells[c] = Zero
                        /\ (c # "dry" /\ "dry" \in DOMAIN cells) =>
                               /\ DeltaName(c) \in DOMAIN cells
                               /\ IsDifference(cells[DeltaName(c)], Zero, cells["dry"])
                        /\ c = "dry" =>
                               \A t \in ObservedTypes(merged.rows) \ {"dry"} :
                                   /\ DeltaName(t) \in DOMAIN cells
                                   /\ IsDifference(cells[DeltaName(t)], cells[t], Zero)

\* A has only a dry record of ratio 10 and B only snow: A's snow is 0.0 and
\* its snow_vs_dry is -10, B's dry is 0.0 and its snow_vs_dry is its snow mean
C11_Witness ==
    /\ Returned
    /\ Len(summary.rows) = 2
    /\ ObservedTypes(merged.rows) = {"dry", "snow"}
    /\ summary.rows[1].cells["dry"] = Rat(10, 1)
    /\ summary.rows[1].cells["snow"] = Zero
    /\ summary.rows[1].cells["snow_vs_dry"] = Rat(0 - 10, 1)
    /\ summary.rows[2].cells["dry"] = Zero
    /\ summary.rows[2].cells["snow_vs_dry"] = summary.rows[2].cells["snow"]
    /\ summary.rows[2].cells["snow"] # Zero

\* C12: every summary row carries a value for each of dry, rain, snow and
\* mixed; a category that no merged record has is present with 0.0.
C12_AllFourCategories ==
    Returned =>
        \A r \in 1..Len(summary.rows) :
            \A c \in Categories :
                /\ c \in DOMAIN summary.rows[r].cells
                /\ (c \notin ObservedTypes(merged.rows)) => summary.rows[r].cells[c] = Zero

\* value[c] of a summary row: its cell, 0.0 when the frame has no column c
ValueOf(cells, c) == IF c \in DOMAIN cells THEN cells[c] ELSE Zero

\* C13: whenever a merged record is dry, every summary row has rain_vs_dry,
\* snow_vs_dry and mixed_vs_dry, each equal to value[c] - value[dry] of the
\* same row, where value[c] is 0.0 for a category the row has no observation in.
C13_DeltasAgainstDry ==
    (Returned /\ "dry" \in ObservedTypes(merged.rows)) =>
        \A r \in 1..Len(summary.rows) :
            LET g == summary.rows[r].group
                cells == summary.rows[r].cells
            IN  \A t \in {"rain", "snow", "mixed"} :
                    /\ DeltaName(t) \in DOMAIN cells
                    /\ IsDifference(cells[DeltaName(t)], ValueOf(cells, t), cells["dry"])
                    /\ Len(RowsOf(merged.rows, g, t)) = 0 => ValueOf(cells, t) = Zero

\* A has dry ratios 10 and 20 and a rain ratio 10 and nothing else was seen:
\* rain_vs_dry = -5 and snow_vs_dry = mixed_vs_dry = -15
C13_Witness ==
    /\ Returned
    /\ Len(summary.rows) = 1
    /\ ObservedTypes(merged.rows) = {"dry", "rain"}
    /\ summary.rows[1].cells["dry"] = Rat(15, 1)
    /\ summary.rows[1].cells["rain"] = Rat(10, 1)
    /\ summary.rows[1].cells["rain_vs_dry"] = Rat(0 - 5, 1)
    /\ summary.rows[1].cells["snow_vs_dry"] = Rat(0 - 15, 1)
    /\ summary.rows[1].cells["mixed_vs_dry"] = Rat(0 - 15, 1)

\* C14: when no merged record is dry, the summary has no dry column and no
\* delta column at all, and the request still ends with the summary returned.
C14_NoDryNoDeltas ==
    (Returned /\ "dry" \notin ObservedTypes(merged.rows)) =>
        /\ ~summary.none
        /\ reported = "dashboard"
        /\ \A r \in 1..Len(summary.rows) :
              /\ "dry" \notin DOMAIN summary.rows[r].cells
              /\ DeltaNames \cap DOMAIN summary.rows[r].cells = {}

\* both groups were joined to rain and snow days only: two rows, columns rain and snow
C14_Witness ==
    /\ Returned
    /\ Len(summary.rows) = 2
    /\ ObservedTypes(merged.rows) = {"rain", "snow"}
    /\ \A r \in 1..2 : DOMAIN summary.rows[r].cells = {"rain", "snow"}

\* C15: summarising an empty sequence of merged records gives an empty
\* summary, with no row, and the request ends without an error.
C15_EmptyMergedEmptySummary ==
    (Returned /\ IsEmpty(merged)) =>
        /\ ~summary.none
        /\ Len(summary.rows) = 0
        /\ reported = "dashboard"

\* a trend series and a weather series with no date in common were joined and summarised
C15_Witness ==
    /\ Returned
    /\ NonEmptyFrame(df_trend) /\ NonEmptyFrame(df_wx)
    /\ DatesOf(df_trend.rows) \cap DatesOf(df_wx.rows) = {}
    /\ IsEmpty(merged)
    /\ summary = Frame(<<>>)

Permuted(rows, p) == [i \in 1..Len(rows) |-> rows[p[i]]]
RowSet(rows) == { rows[i] : i \in 1..Len(rows) }

\* C16: the summary depends only on the multiset of merged records: every
\* reordering of the merged records gives the same set of summary rows.
C16_OrderIndependent ==
    Returned =>
        \A p \in Permutations(1..Len(merged.rows)) :
            RowSet(Summarize(Permuted(merged.rows, p))) = RowSet(summary.rows)

\* three records of two groups, two of them of one (group, category), were summarised
C16_Witness ==
    /\ Returned
    /\ Len(merged.rows) = 3
    /\ Len(summary.rows) = 2
    /\ merged.rows[1].group = merged.rows[2].group
    /\ merged.rows[1].day_type = merged.rows[2].day_type
    /\ merged.rows[1].ratio # merged.rows[2].ratio
    /\ RowSet(Summarize(<<merged.rows[3], merged.rows[2], merged.rows[1]>>))
          = RowSet(summary.rows)

(***************************************************************************)
(* Properties of the correlation (SpecCorrelate)                           *)
(***************************************************************************)
Correlated == pc = "correlated"

\* the merged records that have a precipitation reading
WithMagnitude == SelectSeq(merged.rows, LAMBDA m : m.precipitation_sum.k = "num")
ConstantMagnitude ==
    \A i, j \in 1..Len(WithMagnitude) :
        WithMagnitude[i].precipitation_sum = WithMagnitude[j].precipitation_sum
ConstantRatio ==
    \A i, j \in 1..Len(WithMagnitude) : WithMagnitude[i].ratio = WithMagnitude[j].ratio

\* C17: with fewer than 2 merged records, or a constant magnitude or ratio
\* series, the correlation is shown as undefined: the coefficient is not a
\* number and it carries neither the negligible strength label nor the
\* no-relation direction label of a zero correlation.
C17_UndefinedIsDistinct ==
    (Correlated /\ (Len(WithMagnitude) < 2 \/ ConstantMagnitude \/ ConstantRatio)) =>
        /\ correlation.k = "nan"
        /\ strength # "negligible"
        /\ direction # "none"

\* n * sum(a * b) - sum(a) * sum(b) over the records with a magnitude
RawMoment(a, b) == Len(a) * Dot(a, b) - Sum(a) * Sum(b)

\* C18: with at least 2 records and non-constant magnitude and ratio, the
\* coefficient is the Pearson coefficient (covariance over the root of the
\* product of the variances), lies in [-1, 1], and is 1.0 when
\* ratio = 2 * precipitation on every record.
C18_PearsonInRange ==
    (Correlated /\ Len(WithMagnitude) >= 2 /\ ~ConstantMagnitude /\ ~ConstantRatio) =>
        LET x == [i \in 1..Len(WithMagnitude) |-> WithMagnitude[i].precipitation_sum.v]
            y == [i \in 1..Len(WithMagnitude) |-> WithMagnitude[i].ratio]
            sq == RatMul(Rat(RawMoment(x, y), RawMoment(x, x)),
                         Rat(RawMoment(x, y), RawMoment(y, y)))
        IN  /\ correlation.k = "num"
            /\ correlation.num <= correlation.den
            /\ correlation.sign = Sign(RawMoment(x, y))
            /\ correlation.num = sq.num /\ correlation.den = sq.den
            /\ (\A i \in 1..Len(x) : 1000 * y[i] = 2 * x[i]) =>
                   (correlation.sign = 1 /\ correlation.num = correlation.den)

\* three records with precipitation 0, 1.0 and 2.0 mm and ratio 0, 2 and 4: r = 1.0
C18_Witness ==
    /\ Correlated
    /\ merged.rows = << [precipitation_sum |-> Num(0), ratio |-> 0],
                        [precipitation_sum |-> Num(1000), ratio |-> 2],
                        [precipitation_sum |-> Num(2000), ratio |-> 4] >>
    /\ correlation = [k |-> "num", sign |-> 1, num |-> 1, den |-> 1]
    /\ strength = "very_strong"
    /\ direction = "positive"

(***************************************************************************)
(* Properties of the request of simple_dashboard.py (SpecSimple)           *)
(***************************************************************************)
\* C19: when a fetch fails (for the trend source, any one of the per-group
\* requests) the request ends as a failure: nothing is joined, classified,
\* aggregated or correlated, and no merged records or summary come out.
C19_FetchFailureIsTerminal ==
    (pc \in {"weather", "returned"} /\ (df_trend.none \/ df_wx.none)) =>
        /\ pc = "returned"
        /\ reported = "failed"
        /\ merged.none
        /\ summary.none
        /\ correlation = NoCorrelation

\* the request of group A was answered with rows, that of group B failed:
\* the rows of A were not joined and the request ended as a failure
C19_Witness ==
    /\ pc = "returned"
    /\ reported = "failed"
    /\ pending = <<"B">>
    /\ Len(all_rows) > 0
    /\ df_trend.none
    /\ merged.none

\* C20: when both fetches succeed and the join has no merged record, no later
\* stage raises and the user is shown an empty-overlap outcome, which is not
\* the outcome of a failed fetch.
C20_EmptyJoinReported ==
    (pc = "returned" /\ ~df_trend.none /\ ~df_wx.none /\ ~merged.none /\ IsEmpty(merged)) =>
        reported = "empty_overlap"

(***************************************************************************)
(* Properties of the national weather retrieval (SpecNational)             *)
(***************************************************************************)
NationalDone == pc = "national_done"

\* the readings of column f on date d of the cities that answered
AnsweredReadings(d, f) ==
    { [city |-> all_weather_data[i].city, cell |-> all_weather_data[i].rows[d][f]] :
        i \in 1..Len(all_weather_data) }

RECURSIVE SumCells(_)
SumCells(S) ==
    IF S = {} THEN 0
    ELSE LET x == CHOOSE y \in S : TRUE
         IN  (IF x.cell.k = "num" THEN x.cell.v ELSE 0) + SumCells(S \ {x})

\* C21: a city whose fetch fails neither ends the loop nor removes a city
\* from it: each step passes to the next city, and after the last one the
\* national series is, per date and column, the mean of the readings of
\* exactly the cities that answered; the result is a failure only when no
\* city answered.
C21_PartialNationalMean ==
    /\ [](NationalDone =>
            /\ cities_left = <<>>
            /\ df_wx.none <=> (all_weather_data = <<>>)
            /\ ~df_wx.none =>
                  /\ Len(df_wx.rows) = Cardinality(NationalDates)
                  /\ \A d \in NationalDates, f \in ReadingFields :
                        LET S == AnsweredReadings(d, f)
                            n == Cardinality({ x \in S : x.cell.k = "num" })
                            cell == df_wx.rows[d][f]
                        IN  /\ df_wx.rows[d].date = d
                            /\ IF n = 0 THEN cell.k = "nan"
                               ELSE cell.k = "num" /\ cell.num * n = cell.den * SumCells(S))
    /\ [][cities_left' # cities_left => cities_left' = Tail(cities_left)]_vars

\* Seoul answered 1.0 mm and Daegu 2.0 mm for date 1, Busan failed: the mean is 1.5 mm
C21_Witness ==
    /\ NationalDone
    /\ Len(all_weather_data) = 2
    /\ all_weather_data[1].city = "Seoul" /\ all_weather_data[2].city = "Daegu"
    /\ all_weather_data[1].rows[1].precipitation_sum = Num(1000)
    /\ all_weather_data[2].rows[1].precipitation_sum = Num(2000)
    /\ df_wx.rows[1].precipitation_sum = Rat(1500, 1)

\* C22: after a retrieval in which some cities failed and some answered, the
\* message returned states how many answered and how many failed, the two
\* adding up to the number of cities, and the page does not present the
\* series as the average of every city.
C22_CountsSurfaced ==
    (NationalDone /\ 0 < Len(all_weather_data) /\ Len(all_weather_data) < Len(Cities)) =>
        /\ "succeeded" \in DOMAIN weather_msg
        /\ "failed" \in DOMAIN weather_msg
        /\ weather_msg.succeeded + weather_msg.failed = Len(Cities)
        /\ reported # "average_of_every_city"

(***************************************************************************)
(* Properties of the cache of load_data_with_keywords (SpecCache)          *)
(***************************************************************************)
\* C23: a call is served a stored result only if the call that stored it had
\* exactly the same keyword groups, start date, end date, latitude,
\* longitude and timezone, and only while the entry is younger than 300 s.
C23_ExactKeyWithinTtl ==
    call.served = "cache" =>
        /\ call.stored_by = call.params
        /\ call.result.of = call.params \/ call.result.none
        /\ call.age < 300

\* a call was served from the store 200 s after a call with the same arguments
\* filled it, while an entry of another latitude was in the store as well
C23_Witness ==
    /\ call.served = "cache"
    /\ call.age = 200
    /\ call.params = BaseParams
    /\ ~call.result.none
    /\ CacheKey([BaseParams EXCEPT !.lat = 35]) \in DOMAIN cache

\* C30: a call whose arguments have an entry younger than 300 s in the store
\* is returned that entry without running the body (no trend or weather
\* fetch, store unchanged), also when the entry is the pair (None, None).
C30_StoredResultServed ==
    [][\A p \in CallParams :
          (call'.n = call.n + 1 /\ call'.params = p /\ Fresh(cache, p, now)) =>
              /\ call'.served = "cache"
              /\ call'.result = cache[CacheKey(p)].value
              /\ cache' = cache]_vars

\* the second call, 200 s after a first one that failed, was returned the
\* stored (None, None)
C30_Witness ==
    /\ call.n = 2
    /\ call.served = "cache"
    /\ call.result = FailurePair
    /\ call.stored_by = call.params
    /\ call.age = 200

(***************************************************************************)
(* Properties of the keyword groups (SpecKeywords)                         *)
(***************************************************************************)
\* C24: every keyword group passed to the trend source has a name and
\* between 1 and 5 keywords, and every entered keyword that is not blank is
\* in exactly one group.
C24_GroupsOfOneToFive ==
    (pc \in {"requested_simple", "requested_dashboard"}) =>
        /\ \A g \in 1..Len(keyword_groups) :
              /\ keyword_groups[g].groupName # ""
              /\ Len(keyword_groups[g].keywords) >= 1
              /\ Len(keyword_groups[g].keywords) <= 5
        /\ \A i \in 1..Len(keyword_input.entries) :
              keyword_input.entries[i] # "" =>
                  Cardinality({ <<g, j>> \in (1..Len(keyword_groups)) \X (1..MaxKeywords) :
                                  /\ j <= Len(keyword_groups[g].keywords)
                                  /\ keyword_groups[g].keywords[j] = i }) = 1

(***************************************************************************)
(* Order of the stages of one request (Spec)                               *)
(***************************************************************************)
\* C25: the stages run in the order fetch, join and classify, aggregate: the
\* join is made in a step that starts with both series obtained, the summary
\* (and any coefficient) is computed from the finished join, and a step never
\* changes a series, a join or a summary that an earlier step produced.
C25_StagesInOrder ==
    [][/\ merged' # merged =>
            /\ ~df_trend.none /\ ~df_wx.none
            /\ df_trend' = df_trend /\ df_wx' = df_wx
            /\ merged.none
       /\ summary' # summary =>
            /\ summary.none /\ ~merged'.none
            /\ summary' = Frame(Summarize(merged'.rows))
       /\ correlation' # correlation =>
            /\ ~merged'.none /\ correlation' = corr(merged'.rows)
       /\ df_trend' # df_trend => (df_trend.none /\ df_wx.none /\ merged.none)
       /\ df_wx' # df_wx => (df_wx.none /\ ~df_trend.none /\ merged.none)]_vars

\* a request has gone through the three stages: both series, the join, the summary
C25_Witness ==
    /\ pc = "returned"
    /\ NonEmptyFrame(df_trend) /\ NonEmptyFrame(df_wx)
    /\ ~merged.none /\ Len(merged.rows) = 2
    /\ summary = Frame(Summarize(merged.rows))
    /\ Len(summary.rows) = 2

(***************************************************************************)
(* Labels of a coefficient (SpecLabels)                                    *)
(***************************************************************************)
Labelled == pc = "labelled"

\* the strength label the claim gives to a coefficient of m hundredths, m >= 0
ClaimedStrength(m) ==
    IF m >= 80 THEN "very_strong"
    ELSE IF m >= 60 THEN "strong"
    ELSE IF m >= 40 THEN "moderate"
    ELSE IF m >= 20 THEN "weak"
    ELSE "negligible"

\* C26: the strength label of a defined coefficient r depends on |r| alone,
\* with inclusive lower bounds 0.8, 0.6, 0.4 and 0.2; the direction label is
\* positive for r > 0, negative for r < 0 and none for r = 0; the correlation
\* is announced as found exactly when |r| >= 0.2.
C26_LabelsByMagnitude ==
    Labelled =>
        \A h \in Hundredths :
            correlation = CoefficientOf(h) =>
                /\ strength = ClaimedStrength(Abs(h))
                /\ direction = (IF h > 0 THEN "positive"
                                ELSE IF h < 0 THEN "negative" ELSE "none")
                /\ (reported = "found") = (Abs(h) >= 20)

\* a coefficient on a lower bound, -0.6, has been labelled
C26_Witness ==
    /\ Labelled
    /\ correlation = CoefficientOf(0 - 60)
    /\ strength = "strong" /\ direction = "negative" /\ reported = "found"

(***************************************************************************)
(* Credentials of the live-API path (SpecMain)                             *)
(***************************************************************************)
\* C27: with the credentials absent from the environment and present in the
\* Streamlit secrets, the run does not stop with "credentials not set": it
\* goes on to the trend fetch, which sends the secrets' credentials.
C27_SecretsSuffice ==
    (~credentials.env /\ credentials.secrets /\ pc # "main") =>
        /\ pc # "stopped"
        /\ reported # "credentials_not_set"
        /\ pc # "start" => credentials.used = "secrets"

(***************************************************************************)
(* Sidebar filters of the CSV mode (SpecCsv)                               *)
(***************************************************************************)
\* C28: in CSV mode what is displayed and downloaded is made of the daily rows
\* that pass the sidebar filters only: the group is among the selected groups
\* and the date lies in the selected range, both ends included.
C28_FiltersApplied ==
    (pc = "rendered" /\ Len(sidebar.date_range) = 2) =>
        \A i \in 1..Len(displayed.rows) :
            /\ displayed.rows[i].group \in sidebar.selected_groups
            /\ displayed.rows[i].date >= sidebar.date_range[1]
            /\ displayed.rows[i].date <= sidebar.date_range[2]

(***************************************************************************)
(* The three classifiers (SpecClassify)                                    *)
(***************************************************************************)
\* the category a label of the simple dashboard stands for
CategoryOfLabel(label) ==
    CASE label = "malgeum" -> "dry"
      [] label = "bi" -> "rain"
      [] label = "nun" -> "snow"
      [] label = "honhap" -> "mixed"
      [] OTHER -> label

\* C29: on every observation, absent and null readings included, the batch
\* script's classifier, the dashboard's with its default thresholds and the
\* simple dashboard's (its labels read as dry, rain, snow, mixed) return the
\* same category.
C29_ClassifiersAgree ==
    day_type # "-" =>
        /\ classify_weather_batch(row) \in Categories
        /\ classify_weather(row, DEFAULT_RAIN_THRESHOLD, DEFAULT_SNOW_THRESHOLD)
               = classify_weather_batch(row)
        /\ CategoryOfLabel(classify_weather_simple(row)) = classify_weather_batch(row)

\* an observation with a null rain reading and snowfall on the threshold
C29_Witness ==
    /\ day_type # "-"
    /\ row = [rain_sum |-> None, snowfall_sum |-> Num(1000)]
    /\ classify_weather_batch(row) = "snow"
    /\ classify_weather_simple(row) = "nun"

====
